---- MODULE Spec2Model ----
(***************************************************************************)
(* Trivia REST backend (backend/flaskr/__init__.py): the pagination        *)
(* helper, the request handlers registered by create_app, the error        *)
(* handlers, and the Question / Category tables they work on.              *)
(*                                                                         *)
(* Text is a sequence of one-character strings, so that pattern matching   *)
(* can look at characters.  A table row is a tuple of its columns; the     *)
(* JSON form of a row is a record.                                         *)
(***************************************************************************)
EXTENDS Integers, Sequences, FiniteSets, TLC

VARIABLES questions, categories, nextId, req, resp, pag

vars == <<questions, categories, nextId, req, resp, pag>>

----------------------------------------------------------------------------
(* Bounds of the model *)

\* most rows in the Question table when the application starts
MaxSeed == 11
\* successful POST /questions requests in one run
MaxCreates == 2
\* pure pagination runs: longest selection, largest page size, page range
MaxLen == 7
MaxLimit == 3
MaxPage == 4

----------------------------------------------------------------------------
(* Program constants *)

QUESTIONS_PER_PAGE == 10

HTTP_200_OK == 200
HTTP_201_CREATED == 201
HTTP_204_NO_CONTENT == 204
HTTP_400_BAD_REQUEST == 400
HTTP_404_NOT_FOUND == 404
HTTP_500_INTERNAL_SERVER_ERROR == 500

----------------------------------------------------------------------------
(* Python built-ins used by the code *)

Min(a, b) == IF a < b THEN a ELSE b
Max(a, b) == IF a > b THEN a ELSE b

\* An index of a slice, as Python normalises it for a sequence of length n:
\* a negative index counts from the end, and the result is clamped to 0 .. n.
SliceIndex(i, n) == IF i < 0 THEN Max(i + n, 0) ELSE Min(i, n)

\* s[start:end] (0-based, end exclusive); empty when start >= end.
PySlice(s, start, end) ==
    SubSeq(s, SliceIndex(start, Len(s)) + 1, SliceIndex(end, Len(s)))

----------------------------------------------------------------------------
(* Pagination helper *)

\* start = page * limit: pages counted from 0 instead of 1
paginate_selection_zero_based(selection, page, limit) ==
    LET start == page * limit
        end == start + limit
    IN  <<PySlice(selection, start, end), Len(selection)>>

\* end = start + limit - 1: the last item of every page is dropped
paginate_selection_short(selection, page, limit) ==
    LET start == (page - 1) * limit
        end == start + limit - 1
    IN  <<PySlice(selection, start, end), Len(selection)>>

paginate_selection(selection, page, limit) ==
    LET start == (page - 1) * limit
        end == start + limit
    IN  <<PySlice(selection, start, end), Len(selection)>>

----------------------------------------------------------------------------
(* Requests *)

\* request.args.get(key, default, type=int): the query string is a sequence
\* of <<key, value>> pairs; a missing key (or a value that is no integer,
\* which the type conversion drops) gives the default.
ArgsGet(args, key, default) ==
    LET hits == SelectSeq(args, LAMBDA kv: kv[1] = key)
    IN  IF hits = <<>> THEN default ELSE hits[1][2]

\* request.get_json(): None when the request carries no JSON body, else a
\* dict.  keys holds the keys the dict has; a field outside keys is unset.
NoBody ==
    [kind |-> "none", keys |-> {}, question |-> <<>>, answer |-> "",
     category |-> 0, difficulty |-> 0, searchTerm |-> <<>>]

EmptyDict == [NoBody EXCEPT !.kind = "dict"]

\* Python truth value of get_json()'s result: None and {} are falsy.
Truthy(body) == body.kind = "dict" /\ body.keys # {}

\* dict.get(key) or default, for a text value: an absent key gives None and
\* an empty text is falsy, so both give the default.
GetOr(body, key, default) ==
    IF key \in body.keys /\ body[key] # <<>> THEN body[key] ELSE default

----------------------------------------------------------------------------
(* The tables (backend/models.py) *)

QuestionColumns == {"question", "answer", "category", "difficulty"}

\* Question(**kwargs): the constructor takes exactly the four columns.
QuestionInitOk(body) == body.keys = QuestionColumns

\* question.insert(): the store assigns the next id of its sequence and
\* appends the row <<id, question, answer, category, difficulty>>.
Insert(qs, nid, body) ==
    Append(qs, <<nid, body.question, body.answer, body.category, body.difficulty>>)

\* Question.query.get(id): the rows with that primary key (none or one).
QueryGet(qs, id) == SelectSeq(qs, LAMBDA r: r[1] = id)

\* question.delete(): the row leaves the table.
Delete(qs, row) == SelectSeq(qs, LAMBDA r: r # row)

\* question.format(): the public attributes of a row.
Format(r) ==
    [id |-> r[1], question |-> r[2], answer |-> r[3],
     category |-> r[4], difficulty |-> r[5]]

format_selection(selection) ==
    [i \in 1..Len(selection) |-> Format(selection[i])]

----------------------------------------------------------------------------
(* ILIKE: the pattern language of Question.question.ilike(...) *)

Lower(c) ==
    IF c = "A" THEN "a" ELSE IF c = "B" THEN "b" ELSE c

\* s LIKE p, case-insensitively: % matches any run of characters, _ matches
\* any one character, a backslash takes the next character literally.
RECURSIVE ILike(_, _)
ILike(s, p) ==
    IF p = <<>> THEN s = <<>>
    ELSE IF Head(p) = "%"
         THEN ILike(s, Tail(p)) \/ (s # <<>> /\ ILike(Tail(s), p))
    ELSE IF s = <<>> THEN FALSE
    ELSE IF Head(p) = "_" THEN ILike(Tail(s), Tail(p))
    ELSE IF Head(p) = "\\" /\ Len(p) > 1
         THEN Lower(Head(s)) = Lower(p[2]) /\ ILike(Tail(s), Tail(Tail(p)))
    ELSE Lower(Head(s)) = Lower(Head(p)) /\ ILike(Tail(s), Tail(p))

\* f'%{search_term}%'
SearchPattern(search_term) == <<"%">> \o search_term \o <<"%">>

----------------------------------------------------------------------------
(* Outcomes of a handler body, and the responses made from them *)

\* return jsonify(body), status
Return(body, status) == [kind |-> "return", status |-> status, body |-> body]

\* abort(code): raises the HTTP exception of that code
Abort(code) == [kind |-> "abort", status |-> code, body |-> "HTTPException"]

\* any other exception raised in a handler body
Raise(exc) == [kind |-> "raise", status |-> 0, body |-> exc]

\* try: <body> except: abort(500) -- the bare except catches every exception
\* the body raises, the HTTP exceptions of abort() included.
TryExceptAbort500(outcome) ==
    IF outcome.kind = "return" THEN outcome
    ELSE Abort(HTTP_500_INTERNAL_SERVER_ERROR)

StatusName(code) ==
    CASE code = HTTP_400_BAD_REQUEST -> "HTTP_400_BAD_REQUEST"
      [] code = HTTP_404_NOT_FOUND -> "HTTP_404_NOT_FOUND"
      [] code = HTTP_500_INTERNAL_SERVER_ERROR -> "HTTP_500_INTERNAL_SERVER_ERROR"

\* bad_request, not_found, internal_server_error: the same envelope per code
ErrorEnvelope(code) ==
    [status |-> code,
     body |-> [success |-> FALSE, error |-> code, message |-> StatusName(code)]]

\* The response that leaves the process: a returned value as it is, an HTTP
\* exception through the error handler registered for its code.
Respond(outcome) ==
    IF outcome.kind = "return"
    THEN [status |-> outcome.status, body |-> outcome.body]
    ELSE ErrorEnvelope(outcome.status)

----------------------------------------------------------------------------
(* Request handlers registered by create_app *)

\* GET /categories
list_categories(cats) ==
    TryExceptAbort500(
        Return([success |-> TRUE, categories |-> cats], HTTP_200_OK))

\* total_questions taken after pagination: the size of the page
list_questions_page_total(args, qs, cats) ==
    LET page == ArgsGet(args, "page", 1)
        paged == paginate_selection(qs, page, QUESTIONS_PER_PAGE)
        selection == paged[1]
    IN  TryExceptAbort500(
            IF Len(selection) = 0
            THEN Abort(HTTP_404_NOT_FOUND)
            ELSE Return([success |-> TRUE,
                         current_category |-> "None",
                         categories |-> cats,
                         questions |-> format_selection(selection),
                         total_questions |-> Len(selection)],
                        HTTP_200_OK))

\* GET /questions
list_questions(args, qs, cats) ==
    LET page == ArgsGet(args, "page", 1)
        paged == paginate_selection(qs, page, QUESTIONS_PER_PAGE)
        selection == paged[1]
        total_selection_count == paged[2]
    IN  TryExceptAbort500(
            IF Len(selection) = 0
            THEN Abort(HTTP_404_NOT_FOUND)
            ELSE Return([success |-> TRUE,
                         current_category |-> "None",
                         categories |-> cats,
                         questions |-> format_selection(selection),
                         total_questions |-> total_selection_count],
                        HTTP_200_OK))

\* the row is inserted before the body is checked, so a request that fails
\* in the constructor's argument check has already written
create_question_insert_first(body, qs, nid) ==
    IF ~Truthy(body)
    THEN [outcome |-> TryExceptAbort500(Abort(HTTP_400_BAD_REQUEST)),
          questions |-> qs, nextId |-> nid]
    ELSE IF ~QuestionInitOk(body)
    THEN [outcome |-> TryExceptAbort500(Raise("TypeError")),
          questions |-> Insert(qs, nid, body), nextId |-> nid + 1]
    ELSE [outcome |-> TryExceptAbort500(
                          Return([success |-> TRUE, id |-> nid],
                                 HTTP_201_CREATED)),
          questions |-> Insert(qs, nid, body), nextId |-> nid + 1]

\* POST /questions: the outcome, and the table and id sequence it leaves
create_question(body, qs, nid) ==
    IF ~Truthy(body)
    THEN [outcome |-> TryExceptAbort500(Abort(HTTP_400_BAD_REQUEST)),
          questions |-> qs, nextId |-> nid]
    ELSE IF ~QuestionInitOk(body)
    THEN [outcome |-> TryExceptAbort500(Raise("TypeError")),
          questions |-> qs, nextId |-> nid]
    ELSE [outcome |-> TryExceptAbort500(
                          Return([success |-> TRUE, id |-> nid],
                                 HTTP_201_CREATED)),
          questions |-> Insert(qs, nid, body), nextId |-> nid + 1]

\* DELETE /questions/<int:question_id>: the outcome and the table it leaves
delete_question(question_id, qs) ==
    LET question == QueryGet(qs, question_id)
    IN  IF question = <<>>
        THEN [outcome |-> TryExceptAbort500(Abort(HTTP_404_NOT_FOUND)),
              questions |-> qs]
        ELSE [outcome |-> TryExceptAbort500(
                              Return([success |-> TRUE], HTTP_204_NO_CONTENT)),
              questions |-> Delete(qs, question[1])]

\* POST /questions/filter
filter_questions(args, body, qs) ==
    LET page == ArgsGet(args, "page", 1)
    IN  IF body.kind = "none"
        THEN TryExceptAbort500(Raise("AttributeError"))
        ELSE
          LET search_term == GetOr(body, "searchTerm", <<>>)
              matches == SelectSeq(qs,
                  LAMBDA r: ILike(r[2], SearchPattern(search_term)))
              paged == paginate_selection(matches, page, QUESTIONS_PER_PAGE)
          IN  TryExceptAbort500(
                  Return([success |-> TRUE,
                          questions |-> format_selection(paged[1]),
                          total_questions |-> paged[2]],
                         HTTP_200_OK))

\* The URL rules create_app registers: <<method, rule>>.
UrlMap ==
    {<<"GET", "/categories">>,
     <<"GET", "/questions">>,
     <<"POST", "/questions">>,
     <<"DELETE", "/questions/<int:question_id>">>,
     <<"POST", "/questions/filter">>}

\* Routing: a request goes to the handler of the rule it matches; a path that
\* matches a rule under another method is a 405, a path that matches no rule
\* is a 404, and neither reaches a handler.
Dispatch(method, rule) ==
    IF <<method, rule>> \in UrlMap THEN "handler"
    ELSE IF \E r \in UrlMap : r[2] = rule THEN "method_not_allowed"
    ELSE "not_found"

----------------------------------------------------------------------------
(* Inputs *)

\* prompts of the rows the table starts with, and of the posted questions
SeedPrompt(i) ==
    IF i % 3 = 0 THEN <<"a", "b">>
    ELSE IF i % 3 = 1 THEN <<"A">>
    ELSE <<"b", "_">>

SeedRow(i) == <<i, SeedPrompt(i), "seed", 1 + (i % 2), 1 + (i % 3)>>

PostedPrompts == {<<"B", "a">>, <<"b">>}

\* category 7 is in no Category row: the API does not check it
ValidBodies ==
    {[kind |-> "dict", keys |-> QuestionColumns, question |-> q,
      answer |-> "posted", category |-> c, difficulty |-> 3,
      searchTerm |-> <<>>] : q \in PostedPrompts, c \in {2, 7}}

UnknownKeyBody ==
    [kind |-> "dict", keys |-> QuestionColumns \cup {"bogus"},
     question |-> <<"b">>, answer |-> "posted", category |-> 2,
     difficulty |-> 3, searchTerm |-> <<>>]

CreateBodies == ValidBodies \cup {NoBody, EmptyDict, UnknownKeyBody}

SearchTerms == {<<>>, <<"A", "B">>, <<"_">>}

FilterBodies ==
    {NoBody, EmptyDict}
    \cup {[EmptyDict EXCEPT !.keys = {"searchTerm"}, !.searchTerm = t] :
            t \in SearchTerms}

PageArgs == {<<>>} \cup {<< <<"page", n>> >> : n \in {-1, 0, 2, 99}}

FilterPageArgs == {<<>>} \cup {<< <<"page", n>> >> : n \in {-1, 2}}

\* the last id is one the store never assigns within a run
DeleteIds == {1, 2, MaxSeed + 1, MaxSeed + MaxCreates + 1}

QuizBodies ==
    {[kind |-> "dict", keys |-> {"previous_questions", "quiz_category"},
      previous_questions |-> prev, quiz_category |-> [id |-> c]] :
        prev \in {{}, {1, 2}}, c \in {1}}

Request(op, args, id, body) ==
    [op |-> op, args |-> args, id |-> id, body |-> body]

\* sizes of the Question table when the application starts: empty, less
\* than a page, one row short of the largest, and the largest
SeedSizes == {0, 5, MaxSeed - 1, MaxSeed}

----------------------------------------------------------------------------
(* The service *)

Init ==
    /\ \E n \in SeedSizes : questions = [i \in 1..n |-> SeedRow(i)]
    /\ categories = (1 :> "Science" @@ 2 :> "Art")
    /\ nextId = MaxSeed + 1
    /\ req = Request("none", <<>>, 0, NoBody)
    /\ resp = [status |-> 0, body |-> [success |-> FALSE]]
    /\ pag = [selection |-> <<>>, page |-> 1, limit |-> 1,
              out |-> <<>>, total |-> 0]

ListCategories ==
    /\ Dispatch("GET", "/categories") = "handler"
    /\ req' = Request("list_categories", <<>>, 0, NoBody)
    /\ resp' = Respond(list_categories(categories))
    /\ UNCHANGED <<questions, categories, nextId, pag>>

ListQuestions ==
    /\ Dispatch("GET", "/questions") = "handler"
    /\ \E args \in PageArgs :
        /\ req' = Request("list_questions", args, 0, NoBody)
        /\ resp' = Respond(list_questions(args, questions, categories))
    /\ UNCHANGED <<questions, categories, nextId, pag>>

CreateQuestion ==
    /\ Dispatch("POST", "/questions") = "handler"
    /\ \E body \in CreateBodies :
        LET r == create_question(body, questions, nextId)
        IN  /\ r.nextId <= MaxSeed + MaxCreates + 1
            /\ req' = Request("create_question", <<>>, 0, body)
            /\ resp' = Respond(r.outcome)
            /\ questions' = r.questions
            /\ nextId' = r.nextId
    /\ UNCHANGED <<categories, pag>>

DeleteQuestion ==
    /\ Dispatch("DELETE", "/questions/<int:question_id>") = "handler"
    /\ \E question_id \in DeleteIds :
        LET r == delete_question(question_id, questions)
        IN  /\ req' = Request("delete_question", <<>>, question_id, NoBody)
            /\ resp' = Respond(r.outcome)
            /\ questions' = r.questions
    /\ UNCHANGED <<categories, nextId, pag>>

FilterQuestions ==
    /\ Dispatch("POST", "/questions/filter") = "handler"
    /\ \E args \in FilterPageArgs, body \in FilterBodies :
        /\ req' = Request("filter_questions", args, 0, body)
        /\ resp' = Respond(filter_questions(args, body, questions))
    /\ UNCHANGED <<questions, categories, nextId, pag>>

\* POST /quizzes: create_app registers no rule for the path
Quizzes ==
    /\ Dispatch("POST", "/quizzes") = "not_found"
    /\ \E body \in QuizBodies :
        /\ req' = Request("quizzes", <<>>, 0, body)
        /\ resp' = Respond(Abort(HTTP_404_NOT_FOUND))
    /\ UNCHANGED <<questions, categories, nextId, pag>>

Next ==
    \/ ListCategories
    \/ ListQuestions
    \/ CreateQuestion
    \/ DeleteQuestion
    \/ FilterQuestions
    \/ Quizzes

Spec == Init /\ [][Next]_vars

----------------------------------------------------------------------------
(* The pagination helper on its own: any selection, page and page size *)

PagInit ==
    /\ questions = <<>>
    /\ categories = (1 :> "Science" @@ 2 :> "Art")
    /\ nextId = 1
    /\ req = Request("none", <<>>, 0, NoBody)
    /\ resp = [status |-> 0, body |-> [success |-> FALSE]]
    /\ pag = [selection |-> <<>>, page |-> 1, limit |-> 1,
              out |-> <<>>, total |-> 0]

Paginate ==
    /\ \E len \in 0..MaxLen, page \in (0 - MaxPage)..MaxPage, limit \in 1..MaxLimit :
        LET selection == [i \in 1..len |-> 100 + i]
            r == paginate_selection(selection, page, limit)
        IN  pag' = [selection |-> selection, page |-> page, limit |-> limit,
                    out |-> r[1], total |-> r[2]]
    /\ UNCHANGED <<questions, categories, nextId, req, resp>>

PagNext == Paginate

PagSpec == PagInit /\ [][PagNext]_vars

----------------------------------------------------------------------------
(* Vocabulary of the properties *)

\* Page n (1-based) of a sequence as the design states it: the items at
\* offsets (n-1)*size .. (n-1)*size + size - 1 that exist, in order; no page
\* below 1 and no page past the end has items.
PageOf(sel, n, size) ==
    IF n < 1 THEN <<>>
    ELSE [i \in 1..Min(size, Max(0, Len(sel) - (n - 1) * size)) |->
             sel[(n - 1) * size + i]]

\* text s contains text t, ignoring case
Contains(s, t) ==
    \E k \in 0..(Len(s) - Len(t)) :
        \A j \in 1..Len(t) : Lower(s[k + j]) = Lower(t[j])

RequestedPage == ArgsGet(req.args, "page", 1)

Ids(qs) == {qs[i][1] : i \in DOMAIN qs}

Rows(qs) == {qs[i] : i \in DOMAIN qs}

\* Listing the questions page by page shows row r with its own field values.
ListedIn(qs, cats, r) ==
    \E n \in 1..((Len(qs) \div QUESTIONS_PER_PAGE) + 1) :
        LET answer == Respond(list_questions(<< <<"page", n>> >>, qs, cats))
        IN  /\ answer.status = HTTP_200_OK
            /\ \E i \in DOMAIN answer.body.questions :
                LET q == answer.body.questions[i]
                IN  /\ q.id = r[1]
                    /\ q.question = r[2]
                    /\ q.answer = r[3]
                    /\ q.category = r[4]
                    /\ q.difficulty = r[5]

----------------------------------------------------------------------------
(* Properties *)

\* C1: for a selection of length L, page size P > 0 and page n >= 1,
\* paginate_selection returns exactly min(P, max(0, L-(n-1)*P)) items, the
\* items at offsets (n-1)*P .. (n-1)*P+P-1 in input order; the reported total
\* is L for every integer n.
C1_PaginationContract ==
    LET L == Len(pag.selection)
        P == pag.limit
        n == pag.page
    IN  /\ pag.total = L
        /\ n >= 1 =>
            /\ Len(pag.out) = Min(P, Max(0, L - (n - 1) * P))
            /\ \A i \in 1..Len(pag.out) :
                   pag.out[i] = pag.selection[(n - 1) * P + i]

\* a last, partly filled page: 7 items in pages of 3, page 3 holds the 7th
C1_Witness ==
    /\ Len(pag.selection) = 7
    /\ pag.limit = 3
    /\ pag.page = 3
    /\ pag.out = <<107>>
    /\ pag.total = 7

\* C2: for every selection and every page n that is <= 0 or beyond the last
\* page, paginate_selection returns an empty sub-sequence.
C2_EmptyOutsideRange ==
    (pag.page <= 0 \/ (pag.page - 1) * pag.limit >= Len(pag.selection))
        => pag.out = <<>>

\* C3: GET /questions?page=N answers the 404 envelope whenever the slice of
\* the Question table for page N is empty.
C3_EmptyPageIs404 ==
    (/\ req.op = "list_questions"
     /\ paginate_selection(questions, RequestedPage, QUESTIONS_PER_PAGE)[1] = <<>>)
        => /\ resp.status = HTTP_404_NOT_FOUND
           /\ resp.body.success = FALSE
           /\ resp.body.error = HTTP_404_NOT_FOUND

\* C4: DELETE /questions/{id} for an id that is not in the Question table
\* answers 404 (so a second DELETE of a deleted id answers 404).
C4_DeleteAbsentIs404 ==
    [][(/\ req'.op = "delete_question"
        /\ req'.id \notin Ids(questions))
          => resp'.status = HTTP_404_NOT_FOUND]_vars

\* C5: POST /questions with an absent or empty JSON body answers the 400
\* envelope and inserts no Question row.
C5_EmptyBodyIs400 ==
    [][(/\ req'.op = "create_question"
        /\ ~Truthy(req'.body))
          => /\ resp'.status = HTTP_400_BAD_REQUEST
             /\ resp'.body.error = HTTP_400_BAD_REQUEST
             /\ questions' = questions]_vars

\* C6: a POST /questions with a valid body answers 201 with the id the store
\* gave the new row, and for as long as that id is not deleted, listing the
\* questions over the pages returns a question with that id and the posted
\* question, answer, category and difficulty.
C6_CreateListRoundTrip ==
    [][/\ (/\ req'.op = "create_question"
           /\ Truthy(req'.body)
           /\ QuestionInitOk(req'.body))
             => /\ resp'.status = HTTP_201_CREATED
                /\ resp'.body.success
                /\ resp'.body.id \notin Ids(questions)
                /\ resp'.body.id \in Ids(questions')
                /\ ListedIn(questions', categories',
                            <<resp'.body.id, req'.body.question,
                              req'.body.answer, req'.body.category,
                              req'.body.difficulty>>)
       /\ \A i \in DOMAIN questions :
              questions[i][1] \in Ids(questions')
                  => questions[i] \in Rows(questions')]_vars
    /\ [](\A i \in DOMAIN questions :
              ListedIn(questions, categories, questions[i]))

\* a posted question that lands on the second page of the listing
C6_Witness ==
    /\ req.op = "create_question"
    /\ resp.status = HTTP_201_CREATED
    /\ Len(questions) > QUESTIONS_PER_PAGE
    /\ questions[Len(questions)][1] = resp.body.id

\* C7: GET /questions?page=N with a non-empty page N answers a success
\* payload whose questions are exactly page N (at most 10 items) of all
\* Question rows and whose total_questions is the number of all rows.
C7_ListPagePayload ==
    (/\ req.op = "list_questions"
     /\ PageOf(questions, RequestedPage, QUESTIONS_PER_PAGE) # <<>>)
        => /\ resp.status = HTTP_200_OK
           /\ resp.body.success
           /\ resp.body.questions =
                format_selection(PageOf(questions, RequestedPage, QUESTIONS_PER_PAGE))
           /\ Len(resp.body.questions) <= 10
           /\ resp.body.total_questions = Len(questions)

\* 11 stored questions, page 2: one question, total_questions = 11
C7_Witness ==
    /\ req.op = "list_questions"
    /\ RequestedPage = 2
    /\ Len(questions) = 11
    /\ resp.status = HTTP_200_OK
    /\ Len(resp.body.questions) = 1
    /\ resp.body.total_questions = 11

\* C8: POST /questions/filter?page=N with a JSON body always answers a success
\* payload: questions is page N (size 10) of the questions whose prompt
\* contains searchTerm ignoring case, total_questions is the number of those
\* questions, and an omitted searchTerm is the empty string.
C8_FilterPayload ==
    (/\ req.op = "filter_questions"
     /\ req.body.kind = "dict")
        => LET term == IF "searchTerm" \in req.body.keys
                       THEN req.body.searchTerm ELSE <<>>
               matches == SelectSeq(questions, LAMBDA r: Contains(r[2], term))
           IN  /\ resp.status = HTTP_200_OK
               /\ resp.body.success
               /\ resp.body.questions =
                    format_selection(PageOf(matches, RequestedPage, QUESTIONS_PER_PAGE))
               /\ resp.body.total_questions = Len(matches)

\* C9: every POST /quizzes with a quiz_category answers 200 success with a
\* question that is null or a stored question outside previous_questions (of
\* the requested category when its id is not 0), and null when every question
\* of the selected category is in previous_questions.
C9_QuizExclusion ==
    (/\ req.op = "quizzes"
     /\ "quiz_category" \in req.body.keys)
        => LET cat == req.body.quiz_category.id
               candidates ==
                   {Format(r) : r \in
                       {x \in Rows(questions) :
                           /\ (cat # 0 => x[4] = cat)
                           /\ x[1] \notin req.body.previous_questions}}
           IN  /\ resp.status = HTTP_200_OK
               /\ resp.body.success
               /\ IF candidates = {}
                  THEN resp.body.question = "None"
                  ELSE resp.body.question \in candidates

\* C10: a successful POST /questions adds exactly one row and changes no
\* other; a successful DELETE /questions/{id} removes exactly the row with
\* that id; the Category table never changes; every request answered with an
\* error, and every read endpoint, leaves both tables as they were.
C10_OneRowWrites ==
    [][/\ categories' = categories
       /\ resp'.status >= 400 => questions' = questions
       /\ req'.op \in {"list_categories", "list_questions", "filter_questions"}
            => questions' = questions
       /\ (req'.op = "create_question" /\ resp'.status = HTTP_201_CREATED)
            => /\ Len(questions') = Len(questions) + 1
               /\ SubSeq(questions', 1, Len(questions)) = questions
               /\ questions'[Len(questions')] \notin Rows(questions)
       /\ (req'.op = "delete_question" /\ resp'.status = HTTP_204_NO_CONTENT)
            => /\ req'.id \in Ids(questions)
               /\ Len(questions') = Len(questions) - 1
               /\ questions' = SelectSeq(questions, LAMBDA r: r[1] # req'.id)]_vars

\* a successful delete that leaves other rows behind
C10_Witness ==
    /\ req.op = "delete_question"
    /\ resp.status = HTTP_204_NO_CONTENT
    /\ req.id = 2
    /\ Len(questions) >= 2
    /\ 1 \in Ids(questions)

====
